---- MODULE Spec2Model ----
(***************************************************************************)
(* A model of server/server.go of gorewind: the Server lifecycle          *)
(* (Start/Stop/Wait), the message loop loopServer with its poll bridge    *)
(* asyncPoll/stopPoller, and the request handler handleRequest together   *)
(* with listToFrames and copyList.                                        *)
(*                                                                         *)
(* Every goroutine is a process of the model; a step is one statement (or *)
(* one channel operation) of the source.  An unbuffered channel operation *)
(* is a rendezvous: one step moves the sender and the receiver.           *)
(*                                                                         *)
(* Values held in a container/list carry their dynamic Go type, because   *)
(* the type assertion x.(zFrame) succeeds only for a value whose dynamic  *)
(* type is exactly zFrame and panics otherwise.  A panic in a goroutine   *)
(* that nobody recovers ends the whole process (crashed).                 *)
(***************************************************************************)
EXTENDS Integers, Sequences, FiniteSets, TLC

(***************************************************************************)
(* Bounds of the model.                                                    *)
(***************************************************************************)
\* callers of Start/Stop/Wait
NCallers == 2
\* goroutines launched by Start that are alive at the same time
MaxGoroutines == 2
\* asyncPoll goroutines alive in one run
MaxPollers == 3
\* messages clients deliver to the command socket
MaxMsgs == 1
\* poll calls that end with an error
MaxPollErrs == 1
\* frames of a message in the handler specification
MaxFrames == 6
\* StoredEvents the event store pushes during one run
MaxEvents == 2
\* calls of Close on one Server
MaxCloses == 2

Callers == 1..NCallers

(***************************************************************************)
(* Frames, messages and the values of a container/list.                    *)
(***************************************************************************)
\* the byte strings that occur in frames
Bytes == {"", "id", "PUBLISH", "QUERY"}

\* the messages clients deliver in the server specification
Requests ==
  { <<"id">>,
    <<"id", "", "PUBLISH", "id", "id">> }

RECURSIVE SeqsUpTo(_, _)
SeqsUpTo(S, n) ==
  IF n = 0 THEN {<<>>}
  ELSE LET shorter == SeqsUpTo(S, n - 1)
       IN  shorter \cup {Append(m, x) : m \in {q \in shorter : Len(q) = n - 1}, x \in S}

\* the messages of the handler specification
Messages == SeqsUpTo(Bytes, MaxFrames)

\* a list value of dynamic type []byte: an element of a zMsg
RawBytes(b) == [ty |-> "[]byte", b |-> b]

\* a list value of dynamic type zFrame: the result of the conversion zFrame(...)
ZFrame(b) == [ty |-> "zFrame", b |-> b]

\* the type assertion x.(T) succeeds iff the dynamic type of x is T
AssertOk(x, T) == x.ty = T

\* the results the backend can give to Add and to Query
AddResults == { [ok |-> TRUE, id |-> "id", err |-> ""],
                [ok |-> FALSE, id |-> "", err |-> "add failed"] }
QueryResults == { [ok |-> TRUE, events |-> <<>>, err |-> ""],
                  [ok |-> TRUE, events |-> <<[Id |-> "e1", Data |-> "a"]>>, err |-> ""],
                  [ok |-> TRUE,
                   events |-> <<[Id |-> "e1", Data |-> "a"], [Id |-> "e2", Data |-> "b"]>>,
                   err |-> ""],
                  [ok |-> FALSE, events |-> <<>>, err |-> "query failed"] }

\* the error texts of handleRequest
ErrEmpty == "ERROR Incoming command was empty. Ignoring it."
ErrPublishFrames == "ERROR Wrong number of frames for PUBLISH."
ErrQueryFrames == "ERROR Wrong number of frames for QUERY."
ErrUnknown == "ERROR Unknown request type."

\* copyList: a new list with the same values in the same order
copyList(l) == l

\* the loop of listToFrames: every element is asserted to be a zFrame and
\* assigned to frames[i]; i is never advanced
RECURSIVE FillFrames(_, _, _)
FillFrames(l, frames, i) ==
  IF l = <<>> THEN [panic |-> FALSE, frames |-> frames]
  ELSE IF ~AssertOk(Head(l), "zFrame") THEN [panic |-> TRUE, frames |-> frames]
  ELSE FillFrames(Tail(l), [frames EXCEPT ![i] = Head(l).b], i)

\* listToFrames: a slice of l.Len() nil frames (a nil frame has no bytes),
\* filled by the loop
listToFrames(l) == FillFrames(l, [k \in 1..Len(l) |-> ""], 1)

\* the outcome of a handler: whether it panicked, the responses it put on
\* respchan and the backend calls it made, in order
Outcome(p, r, c) == [panic |-> p, resps |-> r, calls |-> c]

\* response := copyList(resptemplate); PushBack of the payload;
\* respchan <- listToFrames(response), after the earlier responses resps
Respond(tmpl, payload, resps, calls) ==
  LET fr == listToFrames(copyList(tmpl) \o payload)
  IN  IF fr.panic THEN Outcome(TRUE, resps, calls)
      ELSE Outcome(FALSE, Append(resps, fr.frames), calls)

\* the envelope loop of handleRequest: move the front of parts to
\* resptemplate, then stop when the new front is an empty zFrame
RECURSIVE ScanEnvelope(_, _)
ScanEnvelope(parts, tmpl) ==
  IF parts = <<>>
    THEN [panic |-> TRUE, parts |-> parts, tmpl |-> tmpl]
    ELSE LET t2 == Append(tmpl, Head(parts))
             p2 == Tail(parts)
         IN  IF p2 = <<>>
               THEN [panic |-> TRUE, parts |-> p2, tmpl |-> t2]
               ELSE IF ~AssertOk(Head(p2), "zFrame")
                 THEN [panic |-> TRUE, parts |-> p2, tmpl |-> t2]
                 ELSE IF Head(p2).b = ""
                   THEN [panic |-> FALSE, parts |-> p2, tmpl |-> t2]
                   ELSE ScanEnvelope(p2, t2)

\* the range loop over the events of a successful query, then END
RECURSIVE EmitEvents(_, _, _, _)
EmitEvents(tmpl, events, resps, calls) ==
  IF events = <<>>
    THEN Respond(tmpl, <<ZFrame("END")>>, resps, calls)
    ELSE LET ev == Head(events)
             r == Respond(tmpl,
                          << RawBytes("EVENT"),
                             [ty |-> "eventstore", b |-> ev.Id],
                             [ty |-> "eventstore", b |-> ev.Data] >>,
                          resps, calls)
         IN  IF r.panic THEN r ELSE EmitEvents(tmpl, Tail(events), r.resps, calls)

\* case "PUBLISH" of handleRequest; rest is parts after the command frame
HandlePublish(tmpl, rest, addRes) ==
  IF Len(rest) # 2
    THEN Respond(tmpl, <<ZFrame(ErrPublishFrames)>>, <<>>, <<>>)
    ELSE IF ~AssertOk(rest[1], "eventstore.StreamName") \/ ~AssertOk(rest[2], "zFrame")
      THEN Outcome(TRUE, <<>>, <<>>)
      ELSE LET call == <<[op |-> "Add", args |-> <<rest[1].b, rest[2].b>>]>>
           IN  IF addRes.ok
                 THEN Respond(tmpl, <<ZFrame("PUBLISHED"), ZFrame(addRes.id)>>, <<>>, call)
                 ELSE Respond(tmpl, <<ZFrame("ERROR " \o addRes.err)>>, <<>>, call)

\* case "QUERY" of handleRequest
HandleQuery(tmpl, rest, queryRes) ==
  IF Len(rest) # 3
    THEN Respond(tmpl, <<ZFrame(ErrQueryFrames)>>, <<>>, <<>>)
    ELSE IF \E k \in 1..3 : ~AssertOk(rest[k], "zFrame")
      THEN Outcome(TRUE, <<>>, <<>>)
      ELSE LET call == <<[op |-> "Query", args |-> <<rest[1].b, rest[2].b, rest[3].b>>]>>
           IN  IF queryRes.ok
                 THEN EmitEvents(tmpl, queryRes.events, <<>>, call)
                 ELSE Respond(tmpl, <<ZFrame("ERROR " \o queryRes.err)>>, <<>>, call)

\* handleRequest on the message msg, with the results the backend would give
handleRequest(msg, addRes, queryRes) ==
  LET parts0 == [k \in 1..Len(msg) |-> RawBytes(msg[k])]
      scan == ScanEnvelope(parts0, <<>>)
  IN  IF scan.panic THEN Outcome(TRUE, <<>>, <<>>)
      ELSE IF Len(scan.parts) = 0
        THEN Respond(scan.tmpl, <<ZFrame(ErrEmpty)>>, <<>>, <<>>)
        ELSE IF ~AssertOk(Head(scan.parts), "zFrame")
          THEN Outcome(TRUE, <<>>, <<>>)
          ELSE LET command == Head(scan.parts).b
                   rest == Tail(scan.parts)
               IN  IF command = "PUBLISH" THEN HandlePublish(scan.tmpl, rest, addRes)
                   ELSE IF command = "QUERY" THEN HandleQuery(scan.tmpl, rest, queryRes)
                   ELSE Respond(scan.tmpl, <<ZFrame(ErrUnknown)>>, <<>>, <<>>)

(***************************************************************************)
(* What the specification says of a message (section 3 and 4.1).           *)
(***************************************************************************)
HasEmptyFrame(msg) == \E k \in 1..Len(msg) : msg[k] = ""

FirstEmpty(msg) == CHOOSE k \in 1..Len(msg) : msg[k] = "" /\ \A j \in 1..(k - 1) : msg[j] # ""

\* the Envelope: the frames up to and including the first empty frame
Envelope(msg) == SubSeq(msg, 1, FirstEmpty(msg))

\* the frames after the Envelope: the command and its arguments
AfterEnvelope(msg) == SubSeq(msg, FirstEmpty(msg) + 1, Len(msg))

IsPrefix(p, m) == Len(p) <= Len(m) /\ SubSeq(m, 1, Len(p)) = p

\* the payload of a response to msg: what follows the Envelope
Payload(msg, resp) == SubSeq(resp, Len(Envelope(msg)) + 1, Len(resp))


(***************************************************************************)
(* The state of a Server and of the goroutines it runs.                    *)
(***************************************************************************)
VARIABLES
  running,    \* Server.running, read and written under runningMutex
  stopChan,   \* number of values buffered in Server.stopChan (capacity 1)
  waiter,     \* the counter of Server.waiter
  pc,         \* where each caller is inside Start, Stop or Wait
  ret,        \* what the last call of each caller returned
  nsig,       \* stop signals deposited since running last became true
  gLoop,      \* goroutines of Start that are inside loopServer
  gSet,       \* goroutines of Start about to run setRunningState(false)
  gDone,      \* goroutines of Start about to run waiter.Done()
  lpc,        \* where loopServer is
  lerr,       \* res.err of the poll result loopServer has received
  pollers,    \* number of asyncPoll goroutines of this run at each place
  REvents,    \* toPoll[0].REvents has POLLIN
  pending,    \* messages waiting on the command socket
  delivered,  \* messages clients have delivered
  pollErrs,   \* polls that have ended with an error
  handlers,   \* messages of the handleRequest goroutines that have not run
  handled,    \* the messages handled and the outcome of each handler
  offers,     \* responses handlers are blocked sending on respchan
  sent,       \* messages loopServer has sent on the command socket
  crashed,    \* a goroutine has panicked: the process is gone
  pubOpen,    \* pubchan is open and publishAllSavedEvents ranges over it
  orphans,    \* an asyncPoll goroutine has outlived its loopServer
  hin,        \* handler specification: the message, the backend results
  hout,       \* handler specification: <<the outcome of handleRequest>> once it ran
  toPublish,  \* publisher specification: the state of pubchan
  ppc,        \* publisher specification: where publishAllSavedEvents is
  stored,     \* publisher specification: <<the StoredEvent received>>, not sent yet
  pushed,     \* publisher specification: the StoredEvents the backend has pushed
  published,  \* publisher specification: the messages sent on the publish socket
  params,     \* construction: the InitParams handed to New, which fields are set
  failAt,     \* construction: the step of New the transport fails, if any
  npc,        \* construction: where New is
  nsrv,       \* construction: which of evpubsock, commandsock, context are not nil
  nres,       \* construction: the state of the two sockets and of the context
  nret,       \* construction: what New returned
  closeLog    \* construction: what each call of Close returned and released

vars == << running, stopChan, waiter, pc, ret, nsig, gLoop, gSet, gDone, lpc, lerr,
           pollers, REvents, pending, delivered, pollErrs, handlers, handled, offers,
           sent, crashed, pubOpen, orphans, hin, hout,
           toPublish, ppc, stored, pushed, published,
           params, failAt, npc, nsrv, nres, nret, closeLog >>

lifecycleVars == << running, stopChan, waiter, pc, ret, nsig, gLoop, gSet, gDone >>
loopVars == << lpc, lerr, pollers, REvents, pubOpen, orphans >>
socketVars == << pending, delivered, pollErrs, sent >>
handlerVars == << handlers, handled, offers, crashed >>
serverVars == << lifecycleVars, loopVars, socketVars, handlerVars >>
handlerSpecVars == << hin, hout >>
pubVars == << toPublish, ppc, stored, pushed, published >>
\* the variables of the specifications that stand apart from a started Server
newVars == << params, failAt, npc, nsrv, nres, nret, closeLog >>
pureVars == << handlerSpecVars, pubVars, newVars >>

\* the places of an asyncPoll goroutine: calling zmq.Poll, blocked sending
\* the result on notifier (without or with an error), at the select on stop,
\* blocked sending the acknowledgement on stop
PollerPlaces == {"poll", "notifyOk", "notifyErr", "select", "ack"}

NoPollers == [p \in PollerPlaces |-> 0]

Alive == pollers["poll"] + pollers["notifyOk"] + pollers["notifyErr"]
         + pollers["select"] + pollers["ack"]

\* one goroutine moves from place a to place b
Move(a, b) == [pollers EXCEPT ![a] = @ - 1, ![b] = @ + 1]

\* go asyncPoll(pollchan, toPoll, pollCancel) on the pollers ps
Spawn(ps) == [ps EXCEPT !["poll"] = @ + 1]

\* what a call returned: the call and its error ("nil" for none)
Returned(call, err) == [call |-> call, err |-> err]
NotReturned == Returned("none", "pending")

ErrAlreadyRunning == "Already is in running state."
ErrNotRunning == "Server not running."
ErrAlreadySignalled == "Stop already signalled."
ErrNeverStopped == "Signalled stopped, but never stopped."

\* loopServer has not made pubchan yet
PubIdle ==
  /\ toPublish = "none"
  /\ ppc = "none"
  /\ stored = <<>>
  /\ pushed = <<>>
  /\ published = <<>>

\* a pointer to InitParams (given is false for nil) with every field set
ValidParams == [given |-> TRUE, Store |-> TRUE, ZMQContext |-> TRUE,
                CommandSocketZPath |-> TRUE, EvPubSocketZPath |-> TRUE]

\* New has returned a Server: both sockets bound, nothing closed
NewReturned ==
  /\ params = ValidParams
  /\ failAt = "none"
  /\ npc = "returned"
  /\ nsrv = [evpubsock |-> TRUE, commandsock |-> TRUE, context |-> TRUE]
  /\ nres = [pub |-> "open", cmd |-> "open", ctx |-> "open"]
  /\ nret = "server"
  /\ closeLog = <<>>

\* a Server as New returns it, nothing started, no client yet
ServerInit ==
  /\ running = FALSE
  /\ stopChan = 0
  /\ waiter = 0
  /\ pc = [c \in Callers |-> "idle"]
  /\ ret = [c \in Callers |-> NotReturned]
  /\ nsig = 0
  /\ gLoop = 0
  /\ gSet = 0
  /\ gDone = 0
  /\ lpc = "none"
  /\ lerr = FALSE
  /\ pollers = NoPollers
  /\ REvents = FALSE
  /\ pending = <<>>
  /\ delivered = 0
  /\ pollErrs = 0
  /\ handlers = <<>>
  /\ handled = <<>>
  /\ offers = <<>>
  /\ sent = <<>>
  /\ crashed = FALSE
  /\ pubOpen = FALSE
  /\ orphans = FALSE

Init ==
  /\ ServerInit
  /\ hin = [msg |-> <<>>, add |-> CHOOSE a \in AddResults : a.ok,
            query |-> CHOOSE q \in QueryResults : ~q.ok]
  /\ hout = <<>>
  /\ PubIdle
  /\ NewReturned

(***************************************************************************)
(* Server.Start, Server.Stop, Server.Wait.                                 *)
(***************************************************************************)
\* setRunningState without the test of line 198: the flag is set whatever it was
setRunningStateUnchecked(cur, newState) == [err |-> FALSE, running |-> newState]

\* setRunningState: an error, and no change, when the flag is newState already
setRunningState(cur, newState) ==
  IF cur = newState THEN [err |-> TRUE, running |-> cur]
  ELSE [err |-> FALSE, running |-> newState]

\* Start, line 209: v.waiter.Add(1)
StartAdd(c) ==
  /\ ~crashed
  /\ pc[c] = "idle"
  /\ waiter' = waiter + 1
  /\ pc' = [pc EXCEPT ![c] = "start_set"]
  /\ ret' = [ret EXCEPT ![c] = NotReturned]
  /\ UNCHANGED << running, stopChan, nsig, gLoop, gSet, gDone >>
  /\ UNCHANGED << loopVars, socketVars, handlerVars, pureVars >>

\* Start, line 210: setRunningState(true)
StartSetRunning(c) ==
  /\ ~crashed
  /\ pc[c] = "start_set"
  /\ LET r == setRunningState(running, TRUE)
         launching == Cardinality({d \in Callers : pc[d] = "start_go"})
     IN  /\ r.err \/ gLoop + gSet + gDone + launching < MaxGoroutines
         /\ running' = r.running
         /\ pc' = [pc EXCEPT ![c] = IF r.err THEN "start_fail" ELSE "start_go"]
         /\ nsig' = IF r.err THEN nsig ELSE 0
  /\ UNCHANGED << stopChan, waiter, ret, gLoop, gSet, gDone >>
  /\ UNCHANGED << loopVars, socketVars, handlerVars, pureVars >>

\* Start, lines 211-212: v.waiter.Done(); return err
StartFail(c) ==
  /\ ~crashed
  /\ pc[c] = "start_fail"
  /\ waiter' = waiter - 1
  /\ pc' = [pc EXCEPT ![c] = "idle"]
  /\ ret' = [ret EXCEPT ![c] = Returned("Start", ErrAlreadyRunning)]
  /\ UNCHANGED << running, stopChan, nsig, gLoop, gSet, gDone >>
  /\ UNCHANGED << loopVars, socketVars, handlerVars, pureVars >>

\* Start, lines 214-219: go func() {...}(); return nil
StartGo(c) ==
  /\ ~crashed
  /\ pc[c] = "start_go"
  /\ gLoop' = gLoop + 1
  /\ lpc' = "begin"
  /\ pc' = [pc EXCEPT ![c] = "idle"]
  /\ ret' = [ret EXCEPT ![c] = Returned("Start", "nil")]
  /\ UNCHANGED << running, stopChan, waiter, nsig, gSet, gDone >>
  /\ UNCHANGED << lerr, pollers, REvents, pubOpen, orphans >>
  /\ UNCHANGED << socketVars, handlerVars, pureVars >>

\* Stop, line 98: the call
StopCall(c) ==
  /\ ~crashed
  /\ pc[c] = "idle"
  /\ pc' = [pc EXCEPT ![c] = "stop_check"]
  /\ ret' = [ret EXCEPT ![c] = NotReturned]
  /\ UNCHANGED << running, stopChan, waiter, nsig, gLoop, gSet, gDone >>
  /\ UNCHANGED << loopVars, socketVars, handlerVars, pureVars >>

\* Stop without the test of line 99: no call is rejected
StopRejectsNothing(isRunning) == FALSE

\* Stop, line 99: if !v.IsRunning()
StopRejects(isRunning) == ~isRunning

\* Stop, lines 99-101: if !v.IsRunning() { return error }
StopCheck(c) ==
  /\ ~crashed
  /\ pc[c] = "stop_check"
  /\ IF StopRejects(running)
       THEN /\ pc' = [pc EXCEPT ![c] = "idle"]
            /\ ret' = [ret EXCEPT ![c] = Returned("Stop", ErrNotRunning)]
       ELSE /\ pc' = [pc EXCEPT ![c] = "stop_select"]
            /\ ret' = ret
  /\ UNCHANGED << running, stopChan, waiter, nsig, gLoop, gSet, gDone >>
  /\ UNCHANGED << loopVars, socketVars, handlerVars, pureVars >>

\* Stop, lines 103-107: select { case v.stopChan <- true: default: return error }
StopSelect(c) ==
  /\ ~crashed
  /\ pc[c] = "stop_select"
  /\ IF stopChan < 1
       THEN /\ stopChan' = stopChan + 1
            /\ nsig' = nsig + 1
            /\ pc' = [pc EXCEPT ![c] = "stop_wait"]
            /\ ret' = ret
       ELSE /\ stopChan' = stopChan
            /\ nsig' = nsig
            /\ pc' = [pc EXCEPT ![c] = "idle"]
            /\ ret' = [ret EXCEPT ![c] = Returned("Stop", ErrAlreadySignalled)]
  /\ UNCHANGED << running, waiter, gLoop, gSet, gDone >>
  /\ UNCHANGED << loopVars, socketVars, handlerVars, pureVars >>

\* Stop, line 108: v.Wait() returns when the counter is zero
StopWait(c) ==
  /\ ~crashed
  /\ pc[c] = "stop_wait"
  /\ waiter = 0
  /\ pc' = [pc EXCEPT ![c] = "stop_recheck"]
  /\ UNCHANGED << running, stopChan, waiter, ret, nsig, gLoop, gSet, gDone >>
  /\ UNCHANGED << loopVars, socketVars, handlerVars, pureVars >>

\* the result of Stop without the re-check of line 111
StopResultUnchecked(isRunning) == "nil"

\* Stop, lines 111-115: the result, from the re-check of the flag
StopResult(isRunning) == IF isRunning THEN ErrNeverStopped ELSE "nil"

\* Stop, lines 111-115: if v.IsRunning() { return error }; return nil
StopRecheck(c) ==
  /\ ~crashed
  /\ pc[c] = "stop_recheck"
  /\ pc' = [pc EXCEPT ![c] = "idle"]
  /\ ret' = [ret EXCEPT ![c] = Returned("Stop", StopResult(running))]
  /\ UNCHANGED << running, stopChan, waiter, nsig, gLoop, gSet, gDone >>
  /\ UNCHANGED << loopVars, socketVars, handlerVars, pureVars >>

\* Wait, line 91: the call
WaitCall(c) ==
  /\ ~crashed
  /\ pc[c] = "idle"
  /\ pc' = [pc EXCEPT ![c] = "wait"]
  /\ ret' = [ret EXCEPT ![c] = NotReturned]
  /\ UNCHANGED << running, stopChan, waiter, nsig, gLoop, gSet, gDone >>
  /\ UNCHANGED << loopVars, socketVars, handlerVars, pureVars >>

\* Wait, line 91: v.waiter.Wait() returns when the counter is zero
WaitReturn(c) ==
  /\ ~crashed
  /\ pc[c] = "wait"
  /\ waiter = 0
  /\ pc' = [pc EXCEPT ![c] = "idle"]
  /\ ret' = [ret EXCEPT ![c] = Returned("Wait", "nil")]
  /\ UNCHANGED << running, stopChan, waiter, nsig, gLoop, gSet, gDone >>
  /\ UNCHANGED << loopVars, socketVars, handlerVars, pureVars >>

\* the goroutine of Start, line 216: defer v.setRunningState(false)
GoSetRunning ==
  /\ ~crashed
  /\ gSet > 0
  /\ running' = setRunningState(running, FALSE).running
  /\ gSet' = gSet - 1
  /\ gDone' = gDone + 1
  /\ UNCHANGED << stopChan, waiter, pc, ret, nsig, gLoop >>
  /\ UNCHANGED << loopVars, socketVars, handlerVars, pureVars >>

\* the goroutine of Start, line 215: defer v.waiter.Done()
GoDone ==
  /\ ~crashed
  /\ gDone > 0
  /\ waiter' = waiter - 1
  /\ gDone' = gDone - 1
  /\ UNCHANGED << running, stopChan, pc, ret, nsig, gLoop, gSet >>
  /\ UNCHANGED << loopVars, socketVars, handlerVars, pureVars >>


(***************************************************************************)
(* loopServer.                                                             *)
(***************************************************************************)
\* lines 266-281: the poll items, pubchan and its publisher, the channels,
\* the deferred calls and the first asyncPoll goroutine
LoopBegin ==
  /\ ~crashed
  /\ lpc = "begin"
  /\ lpc' = "select"
  /\ lerr' = FALSE
  /\ pollers' = Spawn(NoPollers)
  /\ REvents' = FALSE
  /\ pubOpen' = TRUE
  /\ UNCHANGED << orphans, lifecycleVars, socketVars, handlerVars, pureVars >>

\* line 284: case res := <-pollchan, from a goroutine blocked at line 235
LoopRecvPoll ==
  /\ ~crashed
  /\ lpc = "select"
  /\ Alive < MaxPollers
  /\ \E e \in BOOLEAN :
       LET place == IF e THEN "notifyErr" ELSE "notifyOk"
       IN  /\ pollers[place] > 0
           /\ pollers' = Move(place, "select")
           /\ lerr' = e
  /\ lpc' = "polled"
  /\ UNCHANGED << REvents, pubOpen, orphans >>
  /\ UNCHANGED << lifecycleVars, socketVars, handlerVars, pureVars >>

\* lines 285-293 when the condition of line 288 is false: go asyncPoll again
LoopNotReadable ==
  /\ ~crashed
  /\ lpc = "polled"
  /\ ~(~lerr /\ REvents)
  /\ pollers' = Spawn(pollers)
  /\ lpc' = "select"
  /\ UNCHANGED << lerr, REvents, pubOpen, orphans >>
  /\ UNCHANGED << lifecycleVars, socketVars, handlerVars, pureVars >>

\* line 288 when the condition is true: loopServer enters RecvMultipart
LoopReadable ==
  /\ ~crashed
  /\ lpc = "polled"
  /\ ~lerr /\ REvents
  /\ lpc' = "recv"
  /\ UNCHANGED << lerr, pollers, REvents, pubOpen, orphans >>
  /\ UNCHANGED << lifecycleVars, socketVars, handlerVars, pureVars >>

\* lines 289-293: RecvMultipart returns a message, go handleRequest,
\* go asyncPoll
LoopRecv ==
  /\ ~crashed
  /\ lpc = "recv"
  /\ pending # <<>>
  /\ handlers' = Append(handlers, Head(pending))
  /\ pending' = Tail(pending)
  /\ pollers' = Spawn(pollers)
  /\ lpc' = "select"
  /\ UNCHANGED << lerr, REvents, pubOpen, orphans >>
  /\ UNCHANGED << delivered, pollErrs, sent, handled, offers, crashed >>
  /\ UNCHANGED << lifecycleVars, pureVars >>

\* lines 294-297: case frames := <-respchan, from a handler blocked sending
\* its next response; SendMultipart
LoopRecvResp ==
  /\ ~crashed
  /\ lpc = "select"
  /\ \E h \in 1..Len(offers) :
       /\ offers[h] # <<>>
       /\ sent' = Append(sent, Head(offers[h]))
       /\ offers' = [offers EXCEPT ![h] = Tail(@)]
  /\ UNCHANGED << pending, delivered, pollErrs, handlers, handled, crashed >>
  /\ UNCHANGED << lifecycleVars, loopVars, pureVars >>

\* lines 298-300: case <-stop; return, which runs the deferred stopPoller
LoopRecvStop ==
  /\ ~crashed
  /\ lpc = "select"
  /\ stopChan > 0
  /\ stopChan' = stopChan - 1
  /\ lpc' = "stopSend"
  /\ UNCHANGED << running, waiter, pc, ret, nsig, gLoop, gSet, gDone >>
  /\ UNCHANGED << lerr, pollers, REvents, pubOpen, orphans >>
  /\ UNCHANGED << socketVars, handlerVars, pureVars >>

\* line 273, then the return of loopServer: close(pubchan); the asyncPoll
\* goroutines still alive are left behind
LoopReturn ==
  /\ ~crashed
  /\ lpc = "closePub"
  /\ pubOpen' = FALSE
  /\ orphans' = (orphans \/ Alive > 0)
  /\ pollers' = NoPollers
  /\ lpc' = "none"
  /\ gLoop' = gLoop - 1
  /\ gSet' = gSet + 1
  /\ UNCHANGED << running, stopChan, waiter, pc, ret, nsig, gDone >>
  /\ UNCHANGED << lerr, REvents >>
  /\ UNCHANGED << socketVars, handlerVars, pureVars >>

(***************************************************************************)
(* asyncPoll and stopPoller.                                               *)
(***************************************************************************)
\* lines 233-234: zmq.Poll returns with a readable socket
PollReadable ==
  /\ ~crashed
  /\ pollers["poll"] > 0
  /\ pending # <<>>
  /\ REvents' = TRUE
  /\ pollers' = Move("poll", "notifyOk")
  /\ UNCHANGED << lpc, lerr, pubOpen, orphans >>
  /\ UNCHANGED << lifecycleVars, socketVars, handlerVars, pureVars >>

\* lines 233-234: zmq.Poll returns at its timeout, nothing to read
PollTimeout ==
  /\ ~crashed
  /\ pollers["poll"] > 0
  /\ pending = <<>>
  /\ REvents' = FALSE
  /\ pollers' = Move("poll", "select")
  /\ UNCHANGED << lpc, lerr, pubOpen, orphans >>
  /\ UNCHANGED << lifecycleVars, socketVars, handlerVars, pureVars >>

\* lines 233-234: zmq.Poll returns an error
PollError ==
  /\ ~crashed
  /\ pollers["poll"] > 0
  /\ pollErrs < MaxPollErrs
  /\ pollErrs' = pollErrs + 1
  /\ pollers' = Move("poll", "notifyErr")
  /\ UNCHANGED << lpc, lerr, REvents, pubOpen, orphans >>
  /\ UNCHANGED << pending, delivered, sent >>
  /\ UNCHANGED << lifecycleVars, handlerVars, pureVars >>

\* lines 238-243, default: no sender waits on stop
PollerDefault ==
  /\ ~crashed
  /\ pollers["select"] > 0
  /\ lpc # "stopSend"
  /\ pollers["ack"] = 0
  /\ pollers' = Move("select", "poll")
  /\ UNCHANGED << lpc, lerr, REvents, pubOpen, orphans >>
  /\ UNCHANGED << lifecycleVars, socketVars, handlerVars, pureVars >>

\* line 248 with line 239: stopPoller sends on cancelChan, a goroutine at its
\* select receives
PollerRecvCancel ==
  /\ ~crashed
  /\ lpc = "stopSend"
  /\ pollers["select"] > 0
  /\ pollers' = Move("select", "ack")
  /\ lpc' = "stopRecv"
  /\ UNCHANGED << lerr, REvents, pubOpen, orphans >>
  /\ UNCHANGED << lifecycleVars, socketVars, handlerVars, pureVars >>

\* line 240 with line 239 of another goroutine: the acknowledgement is
\* received by a goroutine at its select; the sender returns
PollerRelay ==
  /\ ~crashed
  /\ pollers["ack"] > 0
  /\ pollers["select"] > 0
  /\ pollers' = [pollers EXCEPT !["select"] = @ - 1]
  /\ UNCHANGED << lpc, lerr, REvents, pubOpen, orphans >>
  /\ UNCHANGED << lifecycleVars, socketVars, handlerVars, pureVars >>

\* line 240 with line 249: stopPoller receives the acknowledgement; the
\* goroutine returns
PollerAck ==
  /\ ~crashed
  /\ lpc = "stopRecv"
  /\ pollers["ack"] > 0
  /\ pollers' = [pollers EXCEPT !["ack"] = @ - 1]
  /\ lpc' = "closePub"
  /\ UNCHANGED << lerr, REvents, pubOpen, orphans >>
  /\ UNCHANGED << lifecycleVars, socketVars, handlerVars, pureVars >>

(***************************************************************************)
(* The handleRequest goroutines and the clients.                           *)
(***************************************************************************)
\* a handleRequest goroutine runs: a panic ends the process, otherwise its
\* responses wait to be sent on respchan
HandlerRun ==
  /\ ~crashed
  /\ \E h \in 1..Len(handlers), a \in AddResults, q \in QueryResults :
       LET out == handleRequest(handlers[h], a, q)
       IN  /\ handlers' = SubSeq(handlers, 1, h - 1) \o SubSeq(handlers, h + 1, Len(handlers))
           /\ handled' = Append(handled, [msg |-> handlers[h], out |-> out])
           /\ crashed' = out.panic
           /\ offers' = IF out.resps = <<>> THEN offers ELSE Append(offers, out.resps)
  /\ UNCHANGED << lifecycleVars, loopVars, socketVars, pureVars >>

\* a client's message arrives on the command socket
Deliver ==
  /\ ~crashed
  /\ delivered < MaxMsgs
  /\ \E m \in Requests : pending' = Append(pending, m)
  /\ delivered' = delivered + 1
  /\ UNCHANGED << pollErrs, sent >>
  /\ UNCHANGED << lifecycleVars, loopVars, handlerVars, pureVars >>

Next ==
  \/ \E c \in Callers : StartAdd(c)
  \/ \E c \in Callers : StartSetRunning(c)
  \/ \E c \in Callers : StartFail(c)
  \/ \E c \in Callers : StartGo(c)
  \/ \E c \in Callers : StopCall(c)
  \/ \E c \in Callers : StopCheck(c)
  \/ \E c \in Callers : StopSelect(c)
  \/ \E c \in Callers : StopWait(c)
  \/ \E c \in Callers : StopRecheck(c)
  \/ \E c \in Callers : WaitCall(c)
  \/ \E c \in Callers : WaitReturn(c)
  \/ GoSetRunning
  \/ GoDone
  \/ LoopBegin
  \/ LoopRecvPoll
  \/ LoopNotReadable
  \/ LoopReadable
  \/ LoopRecv
  \/ LoopRecvStop
  \/ LoopReturn
  \/ PollReadable
  \/ PollTimeout
  \/ PollError
  \/ PollerDefault
  \/ PollerRecvCancel
  \/ PollerRelay
  \/ PollerAck
  \/ HandlerRun
  \/ Deliver

Spec == Init /\ [][Next]_vars


(***************************************************************************)
(* The scheduler runs every goroutine that can take a step; callers and    *)
(* clients are free to make no further call.  Every zmq.Poll returns.      *)
(***************************************************************************)
Fairness ==
  /\ \A c \in Callers : WF_vars(StartSetRunning(c))
  /\ \A c \in Callers : WF_vars(StartFail(c))
  /\ \A c \in Callers : WF_vars(StartGo(c))
  /\ \A c \in Callers : WF_vars(StopCheck(c))
  /\ \A c \in Callers : WF_vars(StopSelect(c))
  /\ \A c \in Callers : WF_vars(StopWait(c))
  /\ \A c \in Callers : WF_vars(StopRecheck(c))
  /\ \A c \in Callers : WF_vars(WaitReturn(c))
  /\ WF_vars(GoSetRunning)
  /\ WF_vars(GoDone)
  /\ WF_vars(LoopBegin)
  /\ WF_vars(LoopRecvPoll \/ LoopRecvStop)
  /\ WF_vars(LoopNotReadable)
  /\ WF_vars(LoopReadable)
  /\ WF_vars(LoopRecv)
  /\ WF_vars(LoopReturn)
  /\ WF_vars(PollReadable \/ PollTimeout)
  /\ WF_vars(PollerDefault)
  /\ WF_vars(PollerRecvCancel)
  /\ WF_vars(PollerRelay \/ PollerAck)
  /\ WF_vars(HandlerRun)

FairSpec == Spec /\ Fairness

(***************************************************************************)
(* handleRequest alone, on every message of up to MaxFrames frames and     *)
(* every result of the backend.                                            *)
(***************************************************************************)
HInit ==
  /\ ServerInit
  /\ hin \in [msg : Messages, add : AddResults, query : QueryResults]
  /\ hout = <<>>
  /\ PubIdle
  /\ NewReturned

HApply ==
  /\ hout = <<>>
  /\ hout' = <<handleRequest(hin.msg, hin.add, hin.query)>>
  /\ UNCHANGED << hin, serverVars, pubVars, newVars >>

HNext == HApply

HandlerSpec == HInit /\ [][HNext]_vars

(***************************************************************************)
(* publishAllSavedEvents during one run of loopServer: the channel the     *)
(* loop makes, registers with the event store and closes when it returns,  *)
(* the StoredEvents the store pushes on it, the goroutine that ranges over *)
(* it.  pubchan is unbuffered: a push and the receive of the range clause  *)
(* are one step.                                                           *)
(***************************************************************************)
\* the StoredEvents a store can push
StoredEvents == [Stream : {"s1", "s2"}, Id : {"e1", "e2"}, Data : {"d1", "d2"}]

PubInit ==
  /\ ServerInit
  /\ hin = [msg |-> <<>>, add |-> CHOOSE a \in AddResults : a.ok,
            query |-> CHOOSE q \in QueryResults : ~q.ok]
  /\ hout = <<>>
  /\ PubIdle
  /\ NewReturned

\* loopServer: pubchan is made, registered, and handed to the new goroutine
PubLoopBegin ==
  /\ toPublish = "none"
  /\ toPublish' = "open"
  /\ ppc' = "range"
  /\ UNCHANGED << stored, pushed, published, serverVars, handlerSpecVars, newVars >>

\* the event store pushes a StoredEvent, the range clause receives it
BackendPush ==
  /\ toPublish = "open"
  /\ ppc = "range"
  /\ Len(pushed) < MaxEvents
  /\ \E e \in StoredEvents :
       /\ pushed' = Append(pushed, e)
       /\ stored' = <<e>>
  /\ ppc' = "send"
  /\ UNCHANGED << toPublish, published, serverVars, handlerSpecVars, newVars >>

\* the body of the loop with the Id in the first frame
publishMsgIdFirst(e) == <<e.Id, e.Stream, e.Data>>

\* the body of the loop: msg[0], msg[1], msg[2]
publishMsg(e) == <<e.Stream, e.Id, e.Data>>

\* evpub.SendMultipart(msg, 0); an error is logged and nothing else, so
\* the step is the same whether the transport reports one or not
PublisherSend ==
  /\ ppc = "send"
  /\ published' = Append(published, publishMsg(stored[1]))
  /\ stored' = <<>>
  /\ ppc' = "range"
  /\ UNCHANGED << toPublish, pushed, serverVars, handlerSpecVars, newVars >>

\* the deferred close(pubchan) when loopServer returns
PubLoopReturn ==
  /\ toPublish = "open"
  /\ toPublish' = "closed"
  /\ UNCHANGED << ppc, stored, pushed, published, serverVars, handlerSpecVars, newVars >>

\* the range clause finds the channel closed: the goroutine returns
PublisherExit ==
  /\ ppc = "range"
  /\ toPublish = "closed"
  /\ ppc' = "exited"
  /\ UNCHANGED << toPublish, stored, pushed, published, serverVars, handlerSpecVars, newVars >>

PubNext ==
  \/ PubLoopBegin
  \/ BackendPush
  \/ PublisherSend
  \/ PubLoopReturn
  \/ PublisherExit

PubSpec == PubInit /\ [][PubNext]_vars

\* the Go scheduler runs a goroutine that can take a step
PubFairSpec == PubSpec /\ WF_vars(PublisherSend) /\ WF_vars(PublisherExit)

(***************************************************************************)
(* New and Close: the construction of a Server, step by step, with the     *)
(* transport failing at one step or at none, and Close called on the       *)
(* Server that New returned.  Closing an open socket succeeds: zmq_close   *)
(* fails on an invalid handle only, and New and Close hold none.           *)
(***************************************************************************)
\* the steps of New that use the transport
FailPoints == {"NewSocket(ROUTER)", "Bind(command)", "NewSocket(PUB)", "Bind(evpub)"}

\* no InitParams at all
NilParams == [given |-> FALSE, Store |-> FALSE, ZMQContext |-> FALSE,
              CommandSocketZPath |-> FALSE, EvPubSocketZPath |-> FALSE]

\* the InitParams a caller can hand to New: nil, or any fields set
ParamsGiven == {NilParams} \cup [given : {TRUE}, Store : BOOLEAN, ZMQContext : BOOLEAN,
                                 CommandSocketZPath : BOOLEAN, EvPubSocketZPath : BOOLEAN]

NewInit ==
  /\ ServerInit
  /\ hin = [msg |-> <<>>, add |-> CHOOSE a \in AddResults : a.ok,
            query |-> CHOOSE q \in QueryResults : ~q.ok]
  /\ hout = <<>>
  /\ PubIdle
  /\ params \in ParamsGiven
  /\ failAt \in {"none"} \cup FailPoints
  /\ npc = "new"
  /\ nsrv = [evpubsock |-> FALSE, commandsock |-> FALSE, context |-> FALSE]
  /\ nres = [pub |-> "none", cmd |-> "none", ctx |-> "open"]
  /\ nret = "pending"
  /\ closeLog = <<>>

\* checkAllInitParamsSet
checkAllInitParamsSet(p) ==
  p.Store /\ p.ZMQContext /\ p.CommandSocketZPath /\ p.EvPubSocketZPath

\* Close that leaves the fields of the Server as they were
CloseKeepingHandles(f, r) ==
  [fields |-> f,
   res |-> [pub |-> IF f.evpubsock THEN "closed" ELSE r.pub,
            cmd |-> IF f.commandsock THEN "closed" ELSE r.cmd,
            ctx |-> IF f.context THEN "closed" ELSE r.ctx],
   err |-> "nil",
   released |-> { h \in {"evpubsock", "commandsock", "context"} : f[h] }]

\* Server.Close on the fields f and the resources r: each handle that is
\* not nil is closed and set to nil
Close(f, r) ==
  [fields |-> [evpubsock |-> FALSE, commandsock |-> FALSE, context |-> FALSE],
   res |-> [pub |-> IF f.evpubsock THEN "closed" ELSE r.pub,
            cmd |-> IF f.commandsock THEN "closed" ELSE r.cmd,
            ctx |-> IF f.context THEN "closed" ELSE r.ctx],
   err |-> "nil",
   released |-> { h \in {"evpubsock", "commandsock", "context"} : f[h] }]

\* lines 122-148: nil or incomplete params are refused before anything is
\* made; otherwise the deferred rollback is armed and context is set
NewCheckParams ==
  /\ npc = "new"
  /\ IF ~params.given \/ ~checkAllInitParamsSet(params)
     THEN /\ nret' = "error"
          /\ npc' = "returned"
          /\ nsrv' = nsrv
     ELSE /\ nret' = nret
          /\ npc' = "cmdsock"
          /\ nsrv' = [nsrv EXCEPT !.context = TRUE]
  /\ UNCHANGED << params, failAt, nres, closeLog, serverVars, handlerSpecVars, pubVars >>

\* lines 150-154: context.NewSocket(zmq.ROUTER)
NewCommandSocket ==
  /\ npc = "cmdsock"
  /\ IF failAt = "NewSocket(ROUTER)"
     THEN /\ npc' = "rollback"
          /\ UNCHANGED << nsrv, nres >>
     ELSE /\ npc' = "cmdbind"
          /\ nsrv' = [nsrv EXCEPT !.commandsock = TRUE]
          /\ nres' = [nres EXCEPT !.cmd = "open"]
  /\ UNCHANGED << params, failAt, nret, closeLog, serverVars, handlerSpecVars, pubVars >>

\* lines 155-158: commandsock.Bind
NewCommandBind ==
  /\ npc = "cmdbind"
  /\ npc' = IF failAt = "Bind(command)" THEN "rollback" ELSE "pubsock"
  /\ UNCHANGED << params, failAt, nsrv, nres, nret, closeLog, serverVars,
                  handlerSpecVars, pubVars >>

\* lines 160-164: context.NewSocket(zmq.PUB)
NewPubSocket ==
  /\ npc = "pubsock"
  /\ IF failAt = "NewSocket(PUB)"
     THEN /\ npc' = "rollback"
          /\ UNCHANGED << nsrv, nres >>
     ELSE /\ npc' = "pubbind"
          /\ nsrv' = [nsrv EXCEPT !.evpubsock = TRUE]
          /\ nres' = [nres EXCEPT !.pub = "open"]
  /\ UNCHANGED << params, failAt, nret, closeLog, serverVars, handlerSpecVars, pubVars >>

\* lines 165-171: evpubsock.Bind; *allOkay = true; return &server, nil
NewPubBind ==
  /\ npc = "pubbind"
  /\ IF failAt = "Bind(evpub)"
     THEN /\ npc' = "rollback"
          /\ nret' = nret
     ELSE /\ npc' = "returned"
          /\ nret' = "server"
  /\ UNCHANGED << params, failAt, nsrv, nres, closeLog, serverVars, handlerSpecVars, pubVars >>

\* lines 142-146: return nil, err runs the deferred function, allOkay is
\* false, server.Close() is called and its result dropped
NewRollback ==
  /\ npc = "rollback"
  /\ LET c == Close(nsrv, nres)
     IN  /\ nsrv' = c.fields
         /\ nres' = c.res
  /\ nret' = "error"
  /\ npc' = "returned"
  /\ UNCHANGED << params, failAt, closeLog, serverVars, handlerSpecVars, pubVars >>

\* the owner of the Server New returned calls Close
CloseCall ==
  /\ npc = "returned"
  /\ nret = "server"
  /\ Len(closeLog) < MaxCloses
  /\ LET c == Close(nsrv, nres)
     IN  /\ nsrv' = c.fields
         /\ nres' = c.res
         /\ closeLog' = Append(closeLog, [err |-> c.err, released |-> c.released])
  /\ UNCHANGED << params, failAt, npc, nret, serverVars, handlerSpecVars, pubVars >>

NewNext ==
  \/ NewCheckParams
  \/ NewCommandSocket
  \/ NewCommandBind
  \/ NewPubSocket
  \/ NewPubBind
  \/ NewRollback
  \/ CloseCall

NewSpec == NewInit /\ [][NewNext]_vars

(***************************************************************************)
(* The select case of loopServer on respchan (LoopRecvResp) is not a       *)
(* disjunct of Next: no handler ever has a response to send.               *)
(***************************************************************************)
NoResponseOffered == offers = <<>> /\ sent = <<>> /\ ~ENABLED LoopRecvResp

(***************************************************************************)
(* The claims on handleRequest.                                            *)
(***************************************************************************)
\* the handler of the handler specification has run on a message that has
\* an Envelope
Handled == hout # <<>> /\ HasEmptyFrame(hin.msg)

\* C1: a request that has an Envelope is answered, and every response put on
\* the funnel is the request's Envelope, frame for frame, then the payload.
C1_EnvelopePreserved ==
  Handled =>
    /\ ~hout[1].panic
    /\ hout[1].resps # <<>>
    /\ \A k \in 1..Len(hout[1].resps) : IsPrefix(Envelope(hin.msg), hout[1].resps[k])

\* C2: PUBLISH, stream, data after the Envelope: one call of the backend's
\* append with {stream, data} and one response, PUBLISHED and the id on
\* success, ERROR and the backend's message on failure.
C2_PublishAppends ==
  (Handled /\ Len(AfterEnvelope(hin.msg)) = 3 /\ AfterEnvelope(hin.msg)[1] = "PUBLISH") =>
    LET after == AfterEnvelope(hin.msg)
        o == hout[1]
    IN  /\ ~o.panic
        /\ o.calls = <<[op |-> "Add", args |-> <<after[2], after[3]>>]>>
        /\ Len(o.resps) = 1
        /\ Payload(hin.msg, o.resps[1]) =
             IF hin.add.ok THEN <<"PUBLISHED", hin.add.id>> ELSE <<"ERROR " \o hin.add.err>>

\* C3: QUERY, stream, fromId, toId after the Envelope: when the query yields
\* N events, N EVENT responses in the backend's order and then one END; when
\* the query fails, one ERROR response and no EVENT or END.
C3_QueryEvents ==
  (Handled /\ Len(AfterEnvelope(hin.msg)) = 4 /\ AfterEnvelope(hin.msg)[1] = "QUERY") =>
    LET o == hout[1]
        evs == hin.query.events
        n == Len(evs)
    IN  /\ ~o.panic
        /\ IF hin.query.ok
             THEN /\ Len(o.resps) = n + 1
                  /\ \A k \in 1..n :
                       Payload(hin.msg, o.resps[k]) = <<"EVENT", evs[k].Id, evs[k].Data>>
                  /\ Payload(hin.msg, o.resps[n + 1]) = <<"END">>
             ELSE /\ Len(o.resps) = 1
                  /\ Payload(hin.msg, o.resps[1]) = <<"ERROR " \o hin.query.err>>

\* C4: a message without an empty frame never crashes the handler or ends the
\* loop: its handler puts exactly one response on the funnel, ending with
\* ERROR "Incoming command was empty. Ignoring it.".
C4_MalformedAnswered ==
  \A k \in 1..Len(handled) :
    ~HasEmptyFrame(handled[k].msg) =>
      /\ ~crashed
      /\ ~handled[k].out.panic
      /\ Len(handled[k].out.resps) = 1
      /\ LET r == handled[k].out.resps[1] IN Len(r) > 0 /\ r[Len(r)] = ErrEmpty

\* C5: PUBLISH with other than 2 argument frames, QUERY with other than 3:
\* exactly one response, the ERROR for the wrong number of frames, and no
\* call of the backend.
C5_WrongFrameCount ==
  (Handled /\ Len(AfterEnvelope(hin.msg)) >= 1) =>
    LET after == AfterEnvelope(hin.msg)
        o == hout[1]
        wrongPublish == after[1] = "PUBLISH" /\ Len(after) # 3
        wrongQuery == after[1] = "QUERY" /\ Len(after) # 4
    IN  (wrongPublish \/ wrongQuery) =>
          /\ ~o.panic
          /\ o.calls = <<>>
          /\ Len(o.resps) = 1
          /\ Payload(hin.msg, o.resps[1]) =
               <<IF wrongPublish THEN ErrPublishFrames ELSE ErrQueryFrames>>


C7_StopWhenNotRunning ==
  /\ [](\A c \in Callers : (pc[c] = "stop_check" /\ ~crashed) => ENABLED StopCheck(c))
  /\ [][\A c \in Callers :
          (pc[c] = "stop_check" /\ ~running /\ pc'[c] # "stop_check") =>
            /\ pc'[c] = "idle"
            /\ ret'[c] = Returned("Stop", ErrNotRunning)
            /\ stopChan' = stopChan
            /\ running' = running
            /\ waiter' = waiter]_vars

\* a Stop has been rejected because the server was not running
C7_Witness ==
  \E c \in Callers : ret[c] = Returned("Stop", ErrNotRunning) /\ ~running /\ stopChan = 0

\* C8: one stop signal is deposited per run: a Stop that reaches its select
\* after another Stop has signalled this run returns "Stop already
\* signalled." and deposits nothing.
C8_OneSignalPerRun ==
  /\ [](nsig <= 1)
  /\ [][\A c \in Callers :
          (pc[c] = "stop_select" /\ nsig >= 1 /\ pc'[c] # "stop_select") =>
            /\ ret'[c] = Returned("Stop", ErrAlreadySignalled)
            /\ stopChan' = stopChan]_vars

\* C9: a Stop that has deposited the stop signal eventually returns.
C9_StopReturns ==
  \A c \in Callers : (pc[c] = "stop_wait") ~> (pc[c] = "idle")

\* C10: when Stop returns nil, the running flag is false at its re-check and
\* no loopServer is executing: the loop has returned, with its poll bridge
\* stopped and pubchan closed, and setRunningState(false) has run.
C10_StopNilMeansStopped ==
  [][\A c \in Callers :
       (pc[c] = "stop_recheck" /\ pc'[c] = "idle" /\ ret'[c].err = "nil") =>
         (~running /\ gLoop = 0 /\ gSet = 0 /\ lpc = "none" /\ ~pubOpen)]_vars

\* a Stop has returned nil
C10_Witness ==
  \E c \in Callers : ret[c] = Returned("Stop", "nil") /\ ~running /\ gLoop = 0


(***************************************************************************)
(* The claim on publishAllSavedEvents.                                     *)
(***************************************************************************)
\* the 3-frame message {stream, id, data} of each StoredEvent of es, in order
Republished(es) == [i \in 1..Len(es) |-> <<es[i].Stream, es[i].Id, es[i].Data>>]

IdentityFrames(msg) == { msg[i] : i \in 1..(FirstEmpty(msg) - 1) }

C14_OneSocketUser == ~(lpc = "recv" /\ pollers["poll"] > 0)

\* C16: at most one asyncPoll goroutine is alive at any time of a run.
C16_OnePollBridge == Alive <= 1

\* C17: when loopServer returns after a stop signal no asyncPoll goroutine
\* of the run is left, polling, blocked on its notification or on cancel.
C17_NoPollerOutlivesLoop == ~orphans

\* the elements of the sequence q that are in the set S, in their order
RECURSIVE Project(_, _)
Project(q, S) ==
  IF q = <<>> THEN <<>>
  ELSE IF Head(q) \in S THEN <<Head(q)>> \o Project(Tail(q), S)
  ELSE Project(Tail(q), S)

StopPlaces == {"stop_check", "stop_select", "stop_wait", "stop_recheck"}

\* C19: whenever the running flag is false and no caller is inside Stop the
\* stop channel is empty.
C19_StopChanEmptyAtRest ==
  (~running /\ \A c \in Callers : pc[c] \notin StopPlaces) => stopChan = 0

\* C20: loopServer calls RecvMultipart only when a message is pending on the
\* command socket, and no more handlers have been spawned than messages
\* were delivered.
C20_ReceiveOnlyPending ==
  /\ lpc = "recv" => pending # <<>>
  /\ Len(handlers) + Len(handled) <= delivered

====
